---- MODULE Spec2Model ----
(***************************************************************************)
(* Model of scripts/migrate_data.py: one run of main() against a target    *)
(* PostgreSQL database.  The target database is the state (its schema, its *)
(* committed rows, the state of the open transaction); the source database *)
(* is read-only input.  Every step of main() is one action.                *)
(*                                                                         *)
(* Values.  A SQL/Python value that may be NULL/None is a tagged record:   *)
(*   Null, IntV(n) (an integer, e.g. a Unix epoch), TsV(n) (a datetime made  *)
(*   from epoch n).  A text value is a sequence of one-character strings;  *)
(*   NULL text is the sentinel NoText, whose only element is not a         *)
(*   character of the alphabet.                                            *)
(***************************************************************************)
EXTENDS Integers, Sequences, FiniteSets, TLC

\* ---------------------------------------------------------------- values
Null == [k |-> "null"]
IntV(n) == [k |-> "int", v |-> n]
TsV(n) == [k |-> "ts", v |-> n]

NoText == <<"<NULL>">>

Str(n) == <<<<"1", "2", "3", "4", "5", "6", "7", "8", "9">>[n]>>

\* str.lower()
Lower(s) ==
    [i \in 1..Len(s) |->
        CASE s[i] = "A" -> "a"
          [] s[i] = "L" -> "l"
          [] s[i] = "Y" -> "y"
          [] s[i] = "E" -> "e"
          [] s[i] = "S" -> "s"
          [] OTHER -> s[i]]

RECURSIVE LStrip(_)
LStrip(s) == IF s # <<>> /\ Head(s) = " " THEN LStrip(Tail(s)) ELSE s

RECURSIVE RStrip(_)
RStrip(s) ==
    IF s # <<>> /\ s[Len(s)] = " " THEN RStrip(SubSeq(s, 1, Len(s) - 1)) ELSE s

\* str.strip()
Strip(s) == RStrip(LStrip(s))

Range(f) == {f[x] : x \in DOMAIN f}

\* ---------------------------------------------------------------- dates
\* The source columns are 32-bit INTEGER, for which datetime.fromtimestamp
\* never raises, so the except branch of convert_date is not reachable.
convert_date(value, use_tstz) ==
    IF ~use_tstz THEN value
    ELSE IF value = Null \/ value = IntV(0) THEN Null
    ELSE TsV(value.v)

\* ---------------------------------------------------------------- schema
InitialTables ==
    {"account_types", "users", "authors", "editions", "collections", "series",
     "sources", "items", "remote_items", "specimens", "remote_specimens",
     "borrows", "borrows_archives", "borrows_settings", "z3950servers", "fees"}

\* the date columns migration 4 converts, per table
DateCols(t) ==
    CASE t = "users" -> {"crea_date", "modif_date", "issue_date", "archived_date"}
      [] t = "items" -> {"crea_date", "modif_date", "archived_timestamp"}
      [] t = "remote_items" -> {"crea_date", "modif_date", "archived_timestamp"}
      [] t = "specimens" -> {"crea_date", "modif_date", "archive_date"}
      [] t = "remote_specimens" -> {"creation_date", "modif_date"}
      [] t = "borrows" -> {"date", "renew_date", "issue_date", "returned_date"}
      [] t = "borrows_archives" -> {"date", "issue_date", "returned_date"}
      [] OTHER -> {}

\* the tracked columns CREATE TABLE gives a table in migration 1
InitialCols(t) ==
    {"id"} \cup DateCols(t) \cup
    (CASE t = "users" -> {"login", "password", "sex_id"}
       [] t = "borrows_archives" -> {"sex_id"}
       [] OTHER -> {})

HasTable(s, t) == t \in s.tables
HasCol(s, t, c) == <<t, c>> \in s.cols
IsTstz(s, t, c) == <<t, c>> \in s.tstz

\* CREATE TABLE IF NOT EXISTS t (...)
CreateTable(s, t) ==
    IF HasTable(s, t) THEN s
    ELSE [s EXCEPT !.tables = @ \cup {t},
                   !.cols = @ \cup {<<t, c>> : c \in InitialCols(t)}]

\* ALTER TABLE t ADD COLUMN IF NOT EXISTS c
AddCol(s, t, c) == [s EXCEPT !.cols = @ \cup {<<t, c>>}]

\* ALTER TABLE t DROP COLUMN IF EXISTS c
DropCol(s, t, c) ==
    [s EXCEPT !.cols = @ \ {<<t, c>>}, !.tstz = @ \ {<<t, c>>}]

\* ALTER TABLE old RENAME TO new
RenameTable(s, old, new) ==
    [s EXCEPT !.tables = (@ \ {old}) \cup {new},
              !.cols = {p \in @ : p[1] # old} \cup
                       {<<new, p[2]>> : p \in {q \in @ : q[1] = old}},
              !.tstz = {p \in @ : p[1] # old} \cup
                       {<<new, p[2]>> : p \in {q \in @ : q[1] = old}}]

\* ---------------------------------------------------------------- target rows
\* rows[t] is the content of table t: a function from the ids present to rows.
AllTables ==
    InitialTables \cup {"loans", "loans_archives", "loans_settings", "occupations"}

NoRows == [t \in AllTables |-> <<>>]

\* a database is [schema, rows]
EmptyDb == [schema |-> [tables |-> {}, cols |-> {}, tstz |-> {}, login_unique |-> "none"],
    rows |-> NoRows]

Admin == <<"a", "d", "m", "i", "n">>
UserPrefix == <<"u", "s", "e", "r", "_">>

\* INSERT ... ON CONFLICT (id) DO NOTHING
InsertNew(tab, id, row) ==
    IF id \in DOMAIN tab THEN tab
    ELSE [i \in DOMAIN tab \cup {id} |-> IF i = id THEN row ELSE tab[i]]

\* INSERT ... ON CONFLICT (id) DO UPDATE SET <fields of upd>
Upsert(tab, id, row, upd) ==
    IF id \in DOMAIN tab
    THEN [tab EXCEPT ![id] = [f \in DOMAIN @ |-> IF f \in upd THEN row[f] ELSE @[f]]]
    ELSE [i \in DOMAIN tab \cup {id} |-> IF i = id THEN row ELSE tab[i]]

AccountType(n) ==
    [name |-> n, items_rights |-> "r", users_rights |-> "r", loans_rights |-> "r",
     items_archive_rights |-> "r", borrows_rights |-> "r", settings_rights |-> "r"]

DefaultAccountTypes ==
    [i \in {1, 2, 3, 4, 8} |->
        CASE i = 1 -> [AccountType("Guest") EXCEPT !.loans_rights = "n",
                           !.items_archive_rights = "n", !.borrows_rights = "n"]
          [] i = 2 -> AccountType("Reader")
          [] i = 3 -> [AccountType("Librarian") EXCEPT !.items_rights = "w",
                           !.users_rights = "w", !.loans_rights = "w",
                           !.items_archive_rights = "w", !.borrows_rights = "w"]
          [] i = 4 -> [AccountType("Administrator") EXCEPT !.items_rights = "w",
                           !.users_rights = "w", !.loans_rights = "w",
                           !.items_archive_rights = "w", !.borrows_rights = "w",
                           !.settings_rights = "w"]
          [] OTHER -> AccountType("Group")]

UserRow(login, password, status, crea, arch) ==
    [login |-> login, password |-> password, status |-> status,
     crea_date |-> crea, archived_date |-> arch]

\* would giving row id the login l break a uniqueness rule on users.login?
\* (a plain unique index of migration 8 ignores NULL and '' logins)
LoginTaken(db, id, l) ==
    /\ db.schema.login_unique # "none"
    /\ l # NoText
    /\ ~(db.schema.login_unique = "index" /\ l = <<>>)
    /\ \E j \in DOMAIN db.rows["users"] : j # id /\ db.rows["users"][j].login = l

\* two rows of tab with the same non-NULL login (and, if nonempty, not '')
DupLogins(tab, nonempty) ==
    \E i, j \in DOMAIN tab :
        /\ i # j
        /\ tab[i].login = tab[j].login
        /\ tab[i].login # NoText
        /\ nonempty => tab[i].login # <<>>

Ok(db) == [ok |-> TRUE, db |-> db]
Raise(db) == [ok |-> FALSE, db |-> db]

\* ---------------------------------------------------------------- migrations
\* Each migration maps a database to [ok, db]: ok = FALSE when a statement
\* raises (the caller rolls back, so db is then the database before it).

\* CREATE TABLE IF NOT EXISTS for every table of ts
CreateTables(s, ts) ==
    [s EXCEPT !.tables = @ \cup ts,
              !.cols = @ \cup UNION {{<<t, c>> : c \in InitialCols(t)} :
                                     t \in ts \ s.tables}]

run_migration_initial_schema(db) ==
    LET s1 == CreateTables(db.schema, InitialTables)
        at == db.rows["account_types"]
        at1 == [i \in DOMAIN at \cup DOMAIN DefaultAccountTypes |->
                   IF i \in DOMAIN at THEN at[i] ELSE DefaultAccountTypes[i]]
        seedAdmin == (HasCol(s1, "users", "password")
                      \/ HasCol(s1, "users", "password_hash"))
                     /\ 1 \notin DOMAIN db.rows["users"]
        db1 == [schema |-> s1, rows |-> [db.rows EXCEPT !["account_types"] = at1]]
    IN  IF seedAdmin /\ LoginTaken(db1, 1, Admin) THEN Raise(db)
        ELSE IF seedAdmin
        THEN Ok([db1 EXCEPT !.rows["users"] = InsertNew(@, 1, (UserRow(Admin, Admin, Null, Null,
            Null)))])
        ELSE Ok(db1)

run_migration_add_password_hash(db) ==
    IF ~HasTable(db.schema, "users") THEN Raise(db)
    ELSE Ok([schema |-> DropCol(db.schema, "users", "password"),
             rows |-> [db.rows EXCEPT !["users"] =
                          [i \in DOMAIN @ |-> [@[i] EXCEPT !.password = NoText]]]])

run_migration_add_fulltext_search(db) ==
    IF ~HasTable(db.schema, "items") THEN Raise(db)
    ELSE Ok([db EXCEPT !.schema = AddCol(@, "items", "search_vector")])

ConvertedTables ==
    {"users", "items", "remote_items", "specimens", "remote_specimens",
     "borrows", "borrows_archives"}

\* ALTER COLUMN c TYPE TIMESTAMPTZ USING CASE WHEN c IS NULL OR c = 0 ...:
\* the comparison c = 0 (and to_timestamp(c)) has no operator when c is
\* already TIMESTAMPTZ, so the statement raises.
CanConvert(s, t) ==
    /\ HasTable(s, t)
    /\ \A c \in DateCols(t) : HasCol(s, t, c) /\ ~IsTstz(s, t, c)

\* CASE WHEN c IS NULL OR c = 0 THEN NULL ELSE to_timestamp(c) END
ToTimestamp(v) == IF v = Null \/ v = IntV(0) THEN Null ELSE TsV(v.v)

ConvertRow(r) ==
    [f \in DOMAIN r |->
        IF f \in {"crea_date", "archived_date", "date", "returned_date"}
        THEN ToTimestamp(r[f]) ELSE r[f]]

run_migration_convert_dates_to_timestamptz(db) ==
    IF \E t \in ConvertedTables : ~CanConvert(db.schema, t) THEN Raise(db)
    ELSE Ok([schema |-> [db.schema EXCEPT !.tstz =
                            @ \cup UNION {{<<t, c>> : c \in DateCols(t)} :
                                          t \in ConvertedTables}],
             rows |-> [t \in AllTables |->
                          IF t \in ConvertedTables
                          THEN [i \in DOMAIN db.rows[t] |-> ConvertRow(db.rows[t][i])]
                          ELSE db.rows[t]]])

\* ALTER TABLE IF EXISTS old RENAME TO new: raises when new already exists
RenameIfExists(s, old, new) ==
    IF ~HasTable(s, old) THEN [ok |-> TRUE, s |-> s]
    ELSE IF HasTable(s, new) THEN [ok |-> FALSE, s |-> s]
    ELSE [ok |-> TRUE, s |-> RenameTable(s, old, new)]

MoveRows(rows, s0, s1, old, new) ==
    IF HasTable(s0, old) /\ ~HasTable(s1, old)
    THEN [rows EXCEPT ![new] = rows[old], ![old] = <<>>]
    ELSE rows

run_migration_rename_borrows_and_user_status(db) ==
    LET s0 == db.schema
        s1 == CreateTable(s0, "occupations")
        s2 == AddCol(AddCol(AddCol(s1, "users", "password"), "users", "status"),
                     "users", "occupation_id")
        r3 == RenameIfExists(s2, "borrows", "loans")
        s4 == IF HasTable(r3.s, "borrows_archives") /\ ~HasTable(r3.s, "loans_archives")
              THEN RenameTable(r3.s, "borrows_archives", "loans_archives")
              ELSE r3.s
        r5 == RenameIfExists(s4, "borrows_settings", "loans_settings")
        s6 == AddCol(r5.s, "loans_archives", "user_id")
        rows1 == MoveRows(MoveRows(MoveRows(db.rows, s0, s6, "borrows", "loans"),
                                   s0, s6, "borrows_archives", "loans_archives"),
                          s0, s6, "borrows_settings", "loans_settings")
    IN  IF ~HasTable(s0, "users") \/ ~r3.ok \/ ~r5.ok THEN Raise(db)
        ELSE IF \E t \in {"loans", "loans_archives", "loans_settings"} :
                    ~HasTable(r5.s, t) THEN Raise(db)
        ELSE Ok([schema |-> s6, rows |-> rows1])

\* UPDATE ... SET archive_date = NOW() needs a TIMESTAMPTZ archive_date
run_migration_add_status_to_items_specimens(db) ==
    LET s == db.schema
        s1 == AddCol(AddCol(s, "items", "lifecycle_status"), "items", "archived_date")
        s2 == [s1 EXCEPT !.tstz = @ \cup {<<"items", "archived_date">>}]
        s3 == AddCol(AddCol(AddCol(s2, "specimens", "lifecycle_status"),
                            "remote_items", "lifecycle_status"),
                     "remote_specimens", "lifecycle_status")
    IN  IF \E t \in {"items", "specimens", "remote_items", "remote_specimens"} :
               ~HasTable(s, t) THEN Raise(db)
        ELSE IF ~IsTstz(s, "specimens", "archive_date") THEN Raise(db)
        ELSE Ok([db EXCEPT !.schema = s3])

run_migration_add_language_to_users(db) ==
    IF ~HasTable(db.schema, "users") THEN Raise(db)
    ELSE Ok([db EXCEPT !.schema = AddCol(@, "users", "language")])

\* UPDATE users u1 SET login = CONCAT(login, '_', id) WHERE ... EXISTS (a row
\* with the same login and a smaller id); then CREATE UNIQUE INDEX IF NOT EXISTS
run_migration_email_login_constraints(db) ==
    LET u == db.rows["users"]
        u1 == [i \in DOMAIN u |->
                  IF /\ u[i].login # NoText
                     /\ u[i].login # <<>>
                     /\ \E j \in DOMAIN u : j < i /\ u[j].login = u[i].login
                  THEN [u[i] EXCEPT !.login = @ \o <<"_">> \o Str(i)]
                  ELSE u[i]]
    IN  IF ~HasTable(db.schema, "users") THEN Raise(db)
        ELSE IF db.schema.login_unique # "none"
        THEN Ok([db EXCEPT !.rows["users"] = u1])
        ELSE IF DupLogins(u1, TRUE) THEN Raise(db)
        ELSE Ok([db EXCEPT !.rows["users"] = u1, !.schema.login_unique = "index"])

run_migration_remove_sex_id_from_users(db) ==
    IF ~HasTable(db.schema, "users") \/ ~HasTable(db.schema, "loans_archives")
    THEN Raise(db)
    ELSE Ok([db EXCEPT !.schema = DropCol(DropCol(@, "users", "sex_id"),
                                          "loans_archives", "sex_id")])

\* DROP INDEX IF EXISTS users_login_unique raises when the index belongs to
\* the constraint of the same name; ADD CONSTRAINT raises on duplicate logins
run_migration_revert_email_constraints_use_login(db) ==
    LET u == db.rows["users"]
        u1 == [i \in DOMAIN u |->
                  IF u[i].login = NoText \/ u[i].login = <<>>
                  THEN [u[i] EXCEPT !.login = UserPrefix \o Str(i)]
                  ELSE u[i]]
    IN  IF ~HasTable(db.schema, "users") THEN Raise(db)
        ELSE IF db.schema.login_unique = "constraint" THEN Raise(db)
        ELSE IF DupLogins(u1, FALSE) THEN Raise(db)
        ELSE Ok([db EXCEPT !.rows["users"] = u1,
                           !.schema.login_unique = "constraint"])

NumMigrations == 10

\* the k-th migration of run_schema_migrations
Migration(k, db) ==
    CASE k = 1 -> run_migration_initial_schema(db)
      [] k = 2 -> run_migration_add_password_hash(db)
      [] k = 3 -> run_migration_add_fulltext_search(db)
      [] k = 4 -> run_migration_convert_dates_to_timestamptz(db)
      [] k = 5 -> run_migration_rename_borrows_and_user_status(db)
      [] k = 6 -> run_migration_add_status_to_items_specimens(db)
      [] k = 7 -> run_migration_add_language_to_users(db)
      [] k = 8 -> run_migration_email_login_constraints(db)
      [] k = 9 -> run_migration_remove_sex_id_from_users(db)
      [] OTHER -> run_migration_revert_email_constraints_use_login(db)

\* migrations 1..k applied and committed one after the other
RECURSIVE Migrated(_, _)
Migrated(k, db) == IF k = 0 THEN db ELSE Migration(k, Migrated(k - 1, db)).db

\* the DROP TABLE IF EXISTS ... CASCADE loop of reset_target_database, which
\* names every table
DropAll(db) ==
    [schema |-> [db.schema EXCEPT !.tables = @ \ AllTables,
                                  !.cols = {p \in @ : p[1] \notin AllTables},
                                  !.tstz = {p \in @ : p[1] \notin AllTables},
                                  !.login_unique = "none"],
     rows |-> [t \in AllTables |-> <<>>]]

\* ---------------------------------------------------------------- detection
detect_date_column_type(s, t, c) ==
    IF ~HasCol(s, t, c) THEN "none"
    ELSE IF IsTstz(s, t, c) THEN "timestamp with time zone"
    ELSE "integer"

is_timestamptz_schema(s) ==
    detect_date_column_type(s, "users", "crea_date") = "timestamp with time zone"

\* ---------------------------------------------------------------- INSERT
\* The outcome of an INSERT with the given date parameters: "none" when it
\* succeeds, else the error it raises.  fault is an error from outside the
\* model ("none" for none), notnull a NULL handed to a NOT NULL column.
\* A date parameter <<column, value>> is accepted when it is NULL or its
\* Python type matches the column's type; otherwise the statement raises
\* (psycopg2 ProgrammingError, not an IntegrityError).
InsertError(s, t, dates, notnull, fault) ==
    IF fault # "none" THEN fault
    ELSE IF ~HasTable(s, t) THEN "undefined_table"
    ELSE IF \E p \in dates :
                /\ p[2] # Null
                /\ ~(HasCol(s, t, p[1]) /\ (p[2].k = "ts") = IsTstz(s, t, p[1]))
         THEN "datatype"
    ELSE IF notnull THEN "integrity"
    ELSE "none"

\* the record kept of one INSERT statement handed to the target: the pass,
\* the table, the id of the row, 1 for the first attempt and 2 for a second,
\* the date parameters with the type of their columns, the login parameter
\* (users only) and the outcome
Write(pass, t, id, try, s, dates, login, err) ==
    [pass |-> pass, table |-> t, id |-> id, try |-> try,
     dates |-> {[col |-> p[1], val |-> p[2], tstz |-> IsTstz(s, t, p[1])] :
                p \in dates},
     login |-> login, err |-> err]

\* ---------------------------------------------------------------- users
\* A source user is [id, login, password, crea_date, archived_date] (of the
\* four date columns of users the model tracks crea_date and archived_date).
ArgonPrefix == <<"$", "a", "r", "g", "o", "n", "2">>

\* hasher.hash(password): a text starting with $argon2 that is not the password
Argon2Hash(password) == ArgonPrefix \o <<"#">> \o password

hash_password(password) ==
    IF password = NoText \/ password = <<>> THEN NoText
    ELSE Argon2Hash(password)

\* first loop of migrate_users: placeholder for a NULL/blank login, then strip
NormalLogin(u) ==
    Strip(IF u.login = NoText \/ u.login = <<>> \/ Strip(u.login) = <<>>
          THEN UserPrefix \o Str(u.id)
          ELSE u.login)

\* user_login_map[user_id]; login_map[login_lower] holds the source users
\* filed under the same lowered login
user_login_map(users, u) ==
    IF Cardinality({j \in 1..Len(users) :
                       Lower(NormalLogin(users[j])) = Lower(NormalLogin(u))}) > 1
    THEN NormalLogin(u) \o <<"_">> \o Str(u.id)
    ELSE NormalLogin(u)

\* the login the second loop of migrate_users puts in the INSERT
FinalLogin(users, u) ==
    LET l == user_login_map(users, u)
    IN  Strip(IF l = <<>> \/ Strip(l) = <<>> THEN UserPrefix \o Str(u.id) ELSE l)

\* the password the second loop puts in the INSERT (the first definition is
\* the variant that copies the source password as it is)
MigratedPasswordPlain(u, hash_passwords) ==
    IF u.password # NoText /\ u.password # <<>> THEN u.password ELSE NoText
MigratedPassword(u, hash_passwords) ==
    IF hash_passwords /\ u.password # NoText /\ u.password # <<>>
    THEN IF ~(/\ Len(u.password) >= Len(ArgonPrefix)
              /\ SubSeq(u.password, 1, Len(ArgonPrefix)) = ArgonPrefix)
         THEN hash_password(u.password)
         ELSE u.password
    ELSE NoText

password_column(s) ==
    IF HasCol(s, "users", "password") THEN "password"
    ELSE IF HasCol(s, "users", "password_hash") THEN "password_hash"
    ELSE "none"

\* status: 0 = active, 2 = deleted if archived
MigratedStatus(archived_date) == IF archived_date # Null THEN IntV(2) ELSE IntV(0)

\* except IntegrityError: the INSERT is issued once more when the message of
\* the error mentions the login (the first definition is the variant that
\* retries after every IntegrityError)
RetriesInsertAnyIntegrity(err) == err \in {"login", "integrity"}
RetriesInsert(err) == err = "login"

\* the record of an INSERT into users, with the status parameter (NULL when
\* the target has no status column)
UserWrite(id, try, s, dates, login, status, err) ==
    [status |-> status] @@ Write("users", "users", id, try, s, dates, login, err)

\* One iteration of the INSERT loop.  st = [ok, tab, writes]: whether the
\* pass is still running, the users table inside the open transaction, and
\* the INSERT statements issued so far.  fault # "none" makes this row's
\* INSERT raise for a reason outside the model ("integrity": an
\* IntegrityError that does not mention the login; "error": any other).
UserInsert(st, s, users, u, hash_passwords, use_tstz, fault) ==
    LET login == FinalLogin(users, u)
        crea == convert_date(u.crea_date, use_tstz)
        arch == convert_date(u.archived_date, use_tstz)
        dates == {<<"crea_date", crea>>, <<"archived_date", arch>>}
        pwcol == password_column(s)
        status == IF HasCol(s, "users", "status") THEN MigratedStatus(arch) ELSE Null
        row == UserRow(login,
                       IF pwcol = "none" THEN NoText
                       ELSE MigratedPassword(u, hash_passwords),
                       status, crea, arch)
        upd == {"login"} \cup (IF pwcol = "none" THEN {} ELSE {"password"})
                         \cup (IF HasCol(s, "users", "status") THEN {"status"} ELSE {})
        pending == [schema |-> s, rows |-> [NoRows EXCEPT !["users"] = st.tab]]
        e0 == InsertError(s, "users", dates, FALSE, fault)
        err == IF e0 = "none" /\ LoginTaken(pending, u.id, login) THEN "login" ELSE e0
        w1 == UserWrite(u.id, 1, s, dates, login, status, err)
        \* the retry runs inside the transaction the first failure aborted
        w2 == UserWrite(u.id, 2, s, dates, login \o <<"_">> \o Str(u.id),
                        status, "aborted")
    IN  IF ~st.ok THEN st
        ELSE IF err = "none"
        THEN [ok |-> TRUE, tab |-> Upsert(st.tab, u.id, row, upd),
              writes |-> st.writes \cup {w1}]
        ELSE IF RetriesInsert(err)
        THEN [ok |-> FALSE, tab |-> st.tab, writes |-> st.writes \cup {w1, w2}]
        ELSE [ok |-> FALSE, tab |-> st.tab, writes |-> st.writes \cup {w1}]

RECURSIVE UsersLoop(_, _, _, _, _, _, _, _)
UsersLoop(st, s, users, i, hash_passwords, use_tstz, fi, fk) ==
    IF i > Len(users) THEN st
    ELSE UsersLoop(UserInsert(st, s, users, users[i], hash_passwords, use_tstz,
                              IF i = fi THEN fk ELSE "none"),
                   s, users, i + 1, hash_passwords, use_tstz, fi, fk)

\* migrate_users: [ok, db, writes]; the rows are committed only if no INSERT raised
migrate_users(db, users, hash_passwords, use_tstz, fi, fk) ==
    LET st == UsersLoop([ok |-> TRUE, tab |-> db.rows["users"], writes |-> {}],
                        db.schema, users, 1, hash_passwords, use_tstz, fi, fk)
    IN  [ok |-> st.ok,
         db |-> IF st.ok THEN [db EXCEPT !.rows["users"] = st.tab] ELSE db,
         writes |-> st.writes]

\* ---------------------------------------------------------------- loans
\* A source borrow is [id, user_id, date, returned_date]; a source archive
\* row is [id, date, returned_date] (the model tracks these two date columns).
get_loans_table_name(s) == IF HasTable(s, "loans") THEN "loans" ELSE "borrows"

archives_table_name(s) ==
    IF get_loans_table_name(s) = "loans" THEN "loans_archives" ELSE "borrows_archives"

\* returned_date is not None and returned_date != 0 (the first definition is
\* the variant without the test against 0)
IsReturnedNotNull(borrow) == borrow.returned_date # Null
IsReturned(borrow) == borrow.returned_date # Null /\ borrow.returned_date # IntV(0)

LoanRow(user_id, date, returned) ==
    [user_id |-> user_id, date |-> date, returned_date |-> returned]

\* origin records which source table the row was copied from
ArchiveRow(user_id, date, returned, origin) ==
    [user_id |-> user_id, date |-> date, returned_date |-> returned,
     origin |-> origin]

\* One iteration of the loop of migrate_loans.  st = [ok, loans, archives,
\* writes, active_count, archived_count]; fault makes this INSERT raise.
LoanInsert(st, s, b, use_tstz, fault) ==
    LET lt == get_loans_table_name(s)
        at == archives_table_name(s)
        date == convert_date(b.date, use_tstz)
        ret == convert_date(b.returned_date, use_tstz)
        dates == {<<"date", date>>, <<"returned_date", ret>>}
        t == IF IsReturned(b) THEN at ELSE lt
        err == InsertError(s, t, dates, date = Null, IF fault THEN "error" ELSE "none")
        w == Write("loans", t, b.id, 1, s, dates, NoText, err)
        uid == IF HasCol(s, at, "user_id") THEN IntV(b.user_id) ELSE Null
    IN  IF ~st.ok THEN st
        ELSE IF err # "none"
        THEN [st EXCEPT !.ok = FALSE, !.writes = @ \cup {w}]
        ELSE IF IsReturned(b)
        THEN [st EXCEPT !.archives = InsertNew(@, b.id, ArchiveRow(uid, date, ret, "borrows")),
                        !.writes = @ \cup {w},
                        !.archived_count = @ + 1]
        ELSE [st EXCEPT !.loans = InsertNew(@, b.id, LoanRow(IntV(b.user_id), date, ret)),
                        !.writes = @ \cup {w},
                        !.active_count = @ + 1]

RECURSIVE LoansLoop(_, _, _, _, _, _)
LoansLoop(st, s, borrows, i, use_tstz, fi) ==
    IF i > Len(borrows) THEN st
    ELSE LoansLoop(LoanInsert(st, s, borrows[i], use_tstz, i = fi),
                   s, borrows, i + 1, use_tstz, fi)

\* migrate_loans: [ok, db, writes, active_count, archived_count]
migrate_loans(db, borrows, use_tstz, fi) ==
    LET lt == get_loans_table_name(db.schema)
        at == archives_table_name(db.schema)
        st == LoansLoop([ok |-> TRUE, loans |-> db.rows[lt], archives |-> db.rows[at],
                         writes |-> {}, active_count |-> 0, archived_count |-> 0],
                        db.schema, borrows, 1, use_tstz, fi)
    IN  [ok |-> st.ok,
         db |-> IF st.ok THEN [db EXCEPT !.rows[lt] = st.loans, !.rows[at] = st.archives]
                ELSE db,
         writes |-> st.writes,
         active_count |-> st.active_count,
         archived_count |-> st.archived_count]

\* One iteration of the loop of migrate_loans_archives.  st = [ok, archives, writes]
ArchiveInsert(st, s, r, use_tstz, fault) ==
    LET at == archives_table_name(s)
        date == convert_date(r.date, use_tstz)
        ret == convert_date(r.returned_date, use_tstz)
        dates == {<<"date", date>>, <<"returned_date", ret>>}
        err == InsertError(s, at, dates, date = Null, IF fault THEN "error" ELSE "none")
        w == Write("loans_archives", at, r.id, 1, s, dates, NoText, err)
    IN  IF ~st.ok THEN st
        ELSE IF err # "none"
        THEN [st EXCEPT !.ok = FALSE, !.writes = @ \cup {w}]
        ELSE [st EXCEPT !.archives = InsertNew(@, r.id,
                                        ArchiveRow(Null, date, ret, "borrows_archives")),
                        !.writes = @ \cup {w}]

RECURSIVE ArchivesLoop(_, _, _, _, _, _)
ArchivesLoop(st, s, rows, i, use_tstz, fi) ==
    IF i > Len(rows) THEN st
    ELSE ArchivesLoop(ArchiveInsert(st, s, rows[i], use_tstz, i = fi),
                      s, rows, i + 1, use_tstz, fi)

\* migrate_loans_archives: [ok, db, writes]
migrate_loans_archives(db, rows, use_tstz, fi) ==
    LET at == archives_table_name(db.schema)
        st == ArchivesLoop([ok |-> TRUE, archives |-> db.rows[at], writes |-> {}],
                           db.schema, rows, 1, use_tstz, fi)
    IN  [ok |-> st.ok,
         db |-> IF st.ok THEN [db EXCEPT !.rows[at] = st.archives] ELSE db,
         writes |-> st.writes]

\* ---------------------------------------------------------------- other passes
\* migrate_account_types: rows is a function from ids to account types
migrate_account_types(db, rows, fault) ==
    LET upd == {"name", "items_rights", "users_rights"}
        tab == db.rows["account_types"]
        new == [i \in DOMAIN tab \cup DOMAIN rows |->
                   IF i \notin DOMAIN rows THEN tab[i]
                   ELSE IF i \notin DOMAIN tab THEN rows[i]
                   ELSE [f \in DOMAIN tab[i] |->
                            IF f \in upd THEN rows[i][f] ELSE tab[i][f]]]
    IN  IF fault \/ (DOMAIN rows # {} /\ ~HasTable(db.schema, "account_types"))
        THEN Raise(db)
        ELSE Ok([db EXCEPT !.rows["account_types"] = new])

\* migrate_authors, migrate_editions, migrate_collections, migrate_series,
\* migrate_sources, migrate_settings, migrate_z3950servers, migrate_fees:
\* ids are the ids of the source table; a row is copied unless its id exists
CopyPass(db, pass, ids, fault) ==
    LET t == IF pass # "settings" THEN pass
             ELSE IF get_loans_table_name(db.schema) = "loans" THEN "loans_settings"
             ELSE "borrows_settings"
        tab == db.rows[t]
        new == [i \in DOMAIN tab \cup ids |->
                   IF i \in DOMAIN tab THEN tab[i] ELSE [id |-> i]]
    IN  IF fault \/ (ids # {} /\ ~HasTable(db.schema, t)) THEN Raise(db)
        ELSE Ok([db EXCEPT !.rows[t] = new])

\* batch_size of migrate_items and migrate_specimens (1000 in the script)
BatchSize == 2

RECURSIVE SortedIds(_)
SortedIds(S) ==
    IF S = {} THEN <<>>
    ELSE LET m == CHOOSE x \in S : \A y \in S : x <= y
         IN <<m>> \o SortedIds(S \ {m})

\* A source item is [is_archive, archived_timestamp, crea_date]; a source
\* specimen is [is_archive, archive_date, crea_date].
\* The INSERT of one item: [ok, row, write]
ItemInsert(s, id, item, use_tstz, fault) ==
    LET ats == convert_date(item.archived_timestamp, use_tstz)
        crea == convert_date(item.crea_date, use_tstz)
        full == HasCol(s, "items", "lifecycle_status") /\ HasCol(s, "items", "archived_date")
        lifecycle_status == IF item.is_archive = 1 THEN IntV(2) ELSE IntV(0)
        archived_date == IF item.is_archive = 1 THEN ats ELSE Null
        dates == {<<"archived_timestamp", ats>>, <<"crea_date", crea>>} \cup
                 (IF full THEN {<<"archived_date", archived_date>>} ELSE {})
        err == InsertError(s, "items", dates, FALSE, IF fault THEN "error" ELSE "none")
    IN  [ok |-> err = "none",
         row |-> [is_archive |-> item.is_archive, archived_timestamp |-> ats,
                  crea_date |-> crea,
                  lifecycle_status |-> IF full THEN lifecycle_status ELSE Null,
                  archived_date |-> archived_date],
         write |-> Write("items", "items", id, 1, s, dates, NoText, err)]

\* The INSERT of one specimen: [ok, row, write]
SpecimenInsert(s, id, sp, use_tstz, fault) ==
    LET ad == convert_date(sp.archive_date, use_tstz)
        crea == convert_date(sp.crea_date, use_tstz)
        dates == {<<"archive_date", ad>>, <<"crea_date", crea>>}
        err == InsertError(s, "specimens", dates, FALSE, IF fault THEN "error" ELSE "none")
    IN  [ok |-> err = "none",
         row |-> [is_archive |-> sp.is_archive, archive_date |-> ad,
                  crea_date |-> crea,
                  lifecycle_status |-> IF HasCol(s, "specimens", "lifecycle_status")
                                       THEN (IF sp.is_archive = 1 THEN IntV(2) ELSE IntV(0))
                                       ELSE Null],
         write |-> Write("specimens", "specimens", id, 1, s, dates, NoText, err)]

\* target_conn.commit() follows the last row of a batch: row number i of n
\* when i is a multiple of batch_size or the last row (the first definition
\* is the variant that commits after every row)
EndOfBatchEveryRow(i, n) == TRUE
EndOfBatch(i, n) == i % BatchSize = 0 \/ i = n

\* target_conn.close() in the finally clause of main(): the target keeps what
\* was committed (the first definition is the variant that keeps every row
\* written)
close_commits(st) == st.tab
close(st) == st.done

\* The while loop of migrate_items / migrate_specimens from row number i
\* (1-based, in id order) on.  st = [ok, tab, done, writes, commits, reads]:
\* tab is the table inside the open transaction, done the committed table.
RECURSIVE BatchLoop(_, _, _, _, _, _, _, _)
BatchLoop(st, pass, s, rows, order, i, use_tstz, fi) ==
    IF ~st.ok \/ i > Len(order) THEN st
    ELSE LET id == order[i]
             ins == IF pass = "items"
                    THEN ItemInsert(s, id, rows[id], use_tstz, i = fi)
                    ELSE SpecimenInsert(s, id, rows[id], use_tstz, i = fi)
             ok == ins.ok
             tab1 == IF ok THEN InsertNew(st.tab, id, ins.row) ELSE st.tab
             last == ok /\ EndOfBatch(i, Len(order))
         IN BatchLoop([ok |-> ok,
                       tab |-> tab1,
                       done |-> IF last THEN tab1 ELSE st.done,
                       writes |-> st.writes \cup {ins.write},
                       commits |-> IF last THEN st.commits + 1 ELSE st.commits,
                       reads |-> Append(st.reads, id)],
                      pass, s, rows, order, i + 1, use_tstz, fi)

\* migrate_items / migrate_specimens: [ok, db, writes, commits, reads]
BatchPass(db, pass, rows, use_tstz, fi) ==
    LET st == BatchLoop([ok |-> TRUE, tab |-> db.rows[pass], done |-> db.rows[pass],
                         writes |-> {}, commits |-> 0, reads |-> <<>>],
                        pass, db.schema, rows, SortedIds(DOMAIN rows), 1, use_tstz, fi)
    IN  [ok |-> st.ok, db |-> [db EXCEPT !.rows[pass] = close(st)],
         writes |-> st.writes, commits |-> st.commits, reads |-> st.reads]

migrate_items(db, rows, use_tstz, fi) == BatchPass(db, "items", rows, use_tstz, fi)

migrate_specimens(db, rows, use_tstz, fi) == BatchPass(db, "specimens", rows, use_tstz, fi)

\* ---------------------------------------------------------------- state
VARIABLES
    gen,              \* the state of generate_large_dataset.py (a record, see GenStart)
    argv,             \* the flags given on the command line
    batch,            \* per batched pass: the commits made and the source ids read, in order
    args,             \* the parsed command line (reset, yes, skip_*, hash_passwords)
    argon2,           \* ARGON2_AVAILABLE
    src,              \* the source database (read only)
    db,               \* the target database as committed
    db0,              \* the target database when the run started
    pc,               \* the position of main()
    response,         \* what the operator typed at the prompt, NoText before
    opened,           \* connect_db has been called
    use_timestamptz,  \* the result of is_timestamptz_schema at line 1919
    mig,              \* the next migration of run_schema_migrations
    mig_ok,           \* the result of run_schema_migrations: "none", "true", "false"
    passes,           \* the data passes (and reset_sequences) called so far, in order
    finished,         \* those of them that returned
    writes,           \* the INSERT statements handed to the target
    counts,           \* active_count and archived_count of migrate_loans
    faulted,          \* the environment made a statement or a connection fail
    banner,           \* 'Migration completed successfully!' was printed
    exit_code         \* the exit status, -1 while running

vars == <<gen, argv, batch, args, argon2, src, db, db0, pc, response, opened, use_timestamptz,
          mig, mig_ok, passes, finished, writes, counts, faulted, banner, exit_code>>

\* the order of the calls in main(), lines 1940-1962 (the first definition is
\* the variant that migrates the loans before the specimens)
PassOrderLoansFirst ==
    <<"account_types", "users", "authors", "editions", "collections", "series",
      "sources", "items", "loans", "specimens", "loans_archives", "settings",
      "z3950servers", "fees", "reset_sequences">>
PassOrder ==
    <<"account_types", "users", "authors", "editions", "collections", "series",
      "sources", "items", "specimens", "loans", "loans_archives", "settings",
      "z3950servers", "fees", "reset_sequences">>

\* if not args.skip_users / if not args.skip_items (the first definition is
\* the variant in which --skip-items leaves the specimens pass in)
SkippedItemsOnly(a, pass) ==
    \/ pass = "users" /\ a.skip_users
    \/ pass = "items" /\ a.skip_items
Skipped(a, pass) ==
    \/ pass = "users" /\ a.skip_users
    \/ pass \in {"items", "specimens"} /\ a.skip_items

\* the next call after position i of PassOrder ("banner" after the last)
RECURSIVE NextPass(_, _)
NextPass(a, i) ==
    IF i >= Len(PassOrder) THEN "banner"
    ELSE IF Skipped(a, PassOrder[i + 1]) THEN NextPass(a, i + 1)
    ELSE PassOrder[i + 1]

\* sys.exit(code)
Exit(code) == pc' = "done" /\ exit_code' = code

\* a pass returned: main() goes on to the next call
Return(pass) ==
    /\ pc' = NextPass(args, CHOOSE i \in 1..Len(PassOrder) : PassOrder[i] = pass)
    /\ exit_code' = exit_code

\* a pass raised: except Exception -> traceback, sys.exit(1) (the first
\* definition is the variant that exits with status 0)
HandlerExitsZero == Exit(0)
Handler == Exit(1)

\* ---------------------------------------------------------------- main
\* the flags the parser was told about, lines 1877-1882
Recognised == {"--reset", "--skip-items", "--skip-users", "--yes"}

\* the namespace before parse_args: every store_true flag is False
NoArgs == [reset |-> FALSE, yes |-> FALSE, skip_users |-> FALSE,
           skip_items |-> FALSE, hash_passwords |-> FALSE]

\* parse_args on recognised flags, then args.hash_passwords = True (line 1884)
parse_args(v) ==
    [reset |-> "--reset" \in v, yes |-> "--yes" \in v,
     skip_users |-> "--skip-users" \in v, skip_items |-> "--skip-items" \in v,
     hash_passwords |-> TRUE]

\* lines 1883-1884: argparse ends the process with status 2 on a flag it
\* does not know
ParseArgs ==
    /\ pc = "parse"
    /\ IF argv \subseteq Recognised
       THEN /\ args' = parse_args(argv)
            /\ pc' = "start"
            /\ exit_code' = exit_code
       ELSE /\ args' = args
            /\ Exit(2)
    /\ UNCHANGED <<gen, argv, batch, argon2, src, db, db0, response, opened, use_timestamptz,
                   mig, mig_ok, passes, finished, writes, counts, faulted, banner>>

\* lines 1900-1903
CheckHashing ==
    /\ pc = "start"
    /\ IF args.hash_passwords /\ ~argon2
       THEN Exit(1)
       ELSE /\ pc' = IF args.reset /\ ~args.yes THEN "confirm" ELSE "connect"
            /\ exit_code' = exit_code
    /\ UNCHANGED <<gen, argv, batch, args, argon2, src, db, db0, response, opened,
           use_timestamptz,
                   mig, mig_ok, passes, finished, writes, counts, faulted, banner>>

Yes == <<"y", "e", "s">>

\* response.lower() == 'yes' (the first definition is the variant that also
\* strips the answer)
confirm_reset_stripped(r) == Lower(Strip(r)) = Yes
confirm_reset(r) == Lower(r) = Yes

\* lines 1905-1909
ConfirmReset ==
    /\ pc = "confirm"
    /\ \E r \in {Yes, <<"Y", "E", "S">>, <<"Y", "e", "s">>, <<"n", "o">>, <<>>, <<"y">>, <<" ",
           "y", "e", "s">>} :
        /\ response' = r
        /\ IF ~confirm_reset(r) THEN Exit(0)
           ELSE pc' = "connect" /\ exit_code' = exit_code
    /\ UNCHANGED <<gen, argv, batch, args, argon2, src, db, db0, opened, use_timestamptz,
                   mig, mig_ok, passes, finished, writes, counts, faulted, banner>>

\* lines 1912-1913: connect_db raises when a database is unreachable
Connect ==
    /\ pc = "connect"
    /\ opened' = TRUE
    /\ \E fault \in BOOLEAN :
        /\ faulted' = (faulted \/ fault)
        /\ IF fault THEN Handler ELSE pc' = "detect" /\ exit_code' = exit_code
    /\ UNCHANGED <<gen, argv, batch, args, argon2, src, db, db0, response, use_timestamptz,
                   mig, mig_ok, passes, finished, writes, counts, banner>>

\* line 1919
DetectSchema ==
    /\ pc = "detect"
    /\ use_timestamptz' = is_timestamptz_schema(db.schema)
    /\ pc' = IF args.reset THEN "reset" ELSE "migrate"
    /\ UNCHANGED <<gen, argv, batch, args, argon2, src, db, db0, response, opened,
                   mig, mig_ok, passes, finished, writes, counts, faulted, banner,
                   exit_code>>

\* reset_target_database up to its call of run_schema_migrations
ResetTarget ==
    /\ pc = "reset"
    /\ \E fault \in BOOLEAN :
        /\ faulted' = (faulted \/ fault)
        /\ db' = IF fault THEN db ELSE DropAll(db)
        /\ IF fault THEN Handler ELSE pc' = "migrate" /\ exit_code' = exit_code
    /\ UNCHANGED <<gen, argv, batch, args, argon2, src, db0, response, opened, use_timestamptz,
                   mig, mig_ok, passes, finished, writes, counts, banner>>

\* except Exception: conn.rollback() undoes what the failed migration did
\* since the last commit (the first definition is the variant that keeps it)
RollbackKeepsEffects(r, committed) == r.db
Rollback(r, committed) == committed

\* One migration of run_schema_migrations and its commit.  When it raises,
\* the rollback leaves the database as the last commit left it, the function
\* returns False, and main() exits (after --reset) or goes on (without).
RunMigration ==
    /\ pc = "migrate"
    /\ \E fault \in BOOLEAN :
        LET r == Migration(mig, db)
            ok == r.ok /\ ~fault
        IN  /\ faulted' = (faulted \/ fault)
            /\ db' = IF ok THEN r.db ELSE Rollback(r, db)
            /\ mig' = IF ok THEN mig + 1 ELSE mig
            /\ mig_ok' = IF ~ok THEN "false"
                         ELSE IF mig = NumMigrations THEN "true" ELSE mig_ok
            /\ IF ok /\ mig < NumMigrations
               THEN pc' = "migrate" /\ exit_code' = exit_code
               ELSE IF ~ok /\ args.reset THEN Exit(1)
               ELSE pc' = "account_types" /\ exit_code' = exit_code
    /\ UNCHANGED <<gen, argv, batch, args, argon2, src, db0, response, opened, use_timestamptz,
                   passes, finished, writes, counts, banner>>

\* what every data pass does to the control state of main(): r = [ok, db, ...]
PassResult(pass, r, fault) ==
    /\ passes' = Append(passes, pass)
    /\ finished' = IF r.ok THEN finished \cup {pass} ELSE finished
    /\ db' = r.db
    /\ faulted' = (faulted \/ fault)
    /\ IF r.ok THEN Return(pass) ELSE Handler

\* line 1941
MigrateAccountTypes ==
    /\ pc = "account_types"
    /\ \E fault \in BOOLEAN :
        PassResult("account_types", migrate_account_types(db, src.account_types, fault), fault)
    /\ UNCHANGED <<gen, argv, batch, args, argon2, src, db0, response, opened, use_timestamptz,
                   mig, mig_ok, writes, counts, banner>>

\* lines 1943-1944
MigrateUsers ==
    /\ pc = "users"
    /\ \E fi \in 0..Len(src.users), fk \in {"integrity", "error"} :
        LET r == migrate_users(db, src.users, args.hash_passwords, use_timestamptz, fi, fk)
        IN  /\ fi = 0 => fk = "error"
            /\ PassResult("users", r, fi # 0)
            /\ writes' = writes \cup r.writes
    /\ UNCHANGED <<gen, argv, batch, args, argon2, src, db0, response, opened, use_timestamptz,
                   mig, mig_ok, counts, banner>>

CopyPasses ==
    {"authors", "editions", "collections", "series", "sources", "settings",
     "z3950servers", "fees"}

\* lines 1946-1950 and 1958-1960
MigrateCopy ==
    /\ pc \in CopyPasses
    /\ \E fault \in BOOLEAN :
        PassResult(pc, CopyPass(db, pc, src.copy[pc], fault), fault)
    /\ UNCHANGED <<gen, argv, batch, args, argon2, src, db0, response, opened, use_timestamptz,
                   mig, mig_ok, writes, counts, banner>>

\* line 1953
MigrateItems ==
    /\ pc = "items"
    /\ \E fi \in 0..Cardinality(DOMAIN src.items) :
        LET r == migrate_items(db, src.items, use_timestamptz, fi)
        IN  /\ PassResult("items", r, fi # 0)
            /\ writes' = writes \cup r.writes
            /\ batch' = [batch EXCEPT ![pc] = [commits |-> r.commits, reads |-> r.reads]]
    /\ UNCHANGED <<gen, argv, args, argon2, src, db0, response, opened, use_timestamptz,
                   mig, mig_ok, counts, banner>>

\* line 1954
MigrateSpecimens ==
    /\ pc = "specimens"
    /\ \E fi \in 0..Cardinality(DOMAIN src.specimens) :
        LET r == migrate_specimens(db, src.specimens, use_timestamptz, fi)
        IN  /\ PassResult("specimens", r, fi # 0)
            /\ writes' = writes \cup r.writes
            /\ batch' = [batch EXCEPT ![pc] = [commits |-> r.commits, reads |-> r.reads]]
    /\ UNCHANGED <<gen, argv, args, argon2, src, db0, response, opened, use_timestamptz,
                   mig, mig_ok, counts, banner>>

\* line 1956
MigrateLoans ==
    /\ pc = "loans"
    /\ \E fi \in 0..Len(src.borrows) :
        LET r == migrate_loans(db, src.borrows, use_timestamptz, fi)
        IN  /\ PassResult("loans", r, fi # 0)
            /\ writes' = writes \cup r.writes
            /\ counts' = [active |-> r.active_count, archived |-> r.archived_count]
    /\ UNCHANGED <<gen, argv, batch, args, argon2, src, db0, response, opened, use_timestamptz,
                   mig, mig_ok, banner>>

\* line 1957
MigrateLoansArchives ==
    /\ pc = "loans_archives"
    /\ \E fi \in 0..Len(src.archives) :
        LET r == migrate_loans_archives(db, src.archives, use_timestamptz, fi)
        IN  /\ PassResult("loans_archives", r, fi # 0)
            /\ writes' = writes \cup r.writes
    /\ UNCHANGED <<gen, argv, batch, args, argon2, src, db0, response, opened, use_timestamptz,
                   mig, mig_ok, counts, banner>>

\* line 1962: every setval is inside try/except, only the commit can raise
ResetSequences ==
    /\ pc = "reset_sequences"
    /\ \E fault \in BOOLEAN :
        PassResult("reset_sequences", [ok |-> ~fault, db |-> db], fault)
    /\ UNCHANGED <<gen, argv, batch, args, argon2, src, db0, response, opened, use_timestamptz,
                   mig, mig_ok, writes, counts, banner>>

\* lines 1964-1972, then the end of main(): exit status 0
Banner ==
    /\ pc = "banner"
    /\ banner' = TRUE
    /\ Exit(0)
    /\ UNCHANGED <<gen, argv, batch, args, argon2, src, db, db0, response, opened,
           use_timestamptz,
                   mig, mig_ok, passes, finished, writes, counts, faulted>>

Next ==
    \/ ParseArgs
    \/ CheckHashing
    \/ ConfirmReset
    \/ Connect
    \/ DetectSchema
    \/ ResetTarget
    \/ RunMigration
    \/ MigrateAccountTypes
    \/ MigrateUsers
    \/ MigrateCopy
    \/ MigrateItems
    \/ MigrateSpecimens
    \/ MigrateLoans
    \/ MigrateLoansArchives
    \/ ResetSequences
    \/ Banner

\* ---------------------------------------------------------------- generate_large_dataset.py
\* Days are numbered from a Monday, so date.weekday() of day d is d % 7 and
\* 6 is a Sunday.
\* the public holidays, on the calendar of the model
ALL_HOLIDAYS == {2, 8}

is_workday(date) == date % 7 # 6 /\ date \notin ALL_HOLIDAYS

\* unix_timestamp, in hours since the midnight of day 0
unix_timestamp(date, hour) == date * 24 + hour

\* a text value interpolated between single quotes: '{s}'
TextV(s) == [k |-> "text", s |-> s]

\* f"'{s}'" if s else "NULL"
TextOrNull(s) == IF s = NoText \/ s = <<>> THEN Null ELSE TextV(s)

\* n if n else 'NULL'
IntOrNull(n) == IF n = 0 THEN Null ELSE IntV(n)

\* str.replace(old, new) for a one-character old and new = <<>> or one character
RECURSIVE Replace(_, _, _)
Replace(s, old, new) ==
    IF s = <<>> THEN <<>>
    ELSE (IF Head(s) = old THEN new ELSE <<Head(s)>>) \o Replace(Tail(s), old, new)

\* name.lower().replace(' ', '_').replace("'", '').replace('-', '_')
KeyOf(name) ==
    Replace(Replace(Replace(Lower(name), " ", <<"_">>), "'", <<>>), "-", <<"_">>)

\* for i, stmt in enumerate(rows): f"{stmt}{',' if i < len(rows) - 1 else ';'}"
\* after the line "INSERT INTO table (columns) VALUES" (the first definition
\* is the variant that ends every line with a comma)
InsertAllCommas(table, columns, rows) ==
    [table |-> table, columns |-> columns,
     lines |-> [i \in 1..Len(rows) |-> [values |-> rows[i], end |-> ","]]]
Insert(table, columns, rows) ==
    [table |-> table, columns |-> columns,
     lines |-> [i \in 1..Len(rows) |->
                   [values |-> rows[i],
                    end |-> IF i - 1 < Len(rows) - 1 THEN "," ELSE ";"]]]

\* for batch_start in range(0, len(rows), batch_size): one INSERT per batch
RECURSIVE InsertBatches(_, _, _, _)
InsertBatches(table, columns, rows, size) ==
    IF rows = <<>> THEN <<>>
    ELSE LET n == IF Len(rows) < size THEN Len(rows) ELSE size
         IN  <<Insert(table, columns, SubSeq(rows, 1, n))>> \o
             InsertBatches(table, columns, SubSeq(rows, n + 1, Len(rows)), size)

\* s.upper()[:n]
UpperPrefix(s, n) ==
    LET upper == [i \in 1..Len(s) |->
                     CASE s[i] = "a" -> "A"
                       [] s[i] = "e" -> "E"
                       [] s[i] = "r" -> "R"
                       [] OTHER -> s[i]]
    IN  SubSeq(upper, 1, IF Len(s) < n THEN Len(s) ELSE n)

\* the constants of main(), scaled: num_users, num_authors, num_series,
\* num_editions, num_collections, num_items and the batch_size of the
\* INSERT statements
NumUsers == 1
NumAuthors == 1
NumSeries == 2
NumEditions == 2
NumCollections == 2
NumItems == 1
GenBatchSize == 2
\* random.randint(1, 5) specimens per item, scaled
MaxSpecimens == 1

\* one tuple of generate_users, lines 165-202
generate_users(num_users, choices, today) ==
    LET UserValues(user_id, c) ==
            LET login == Lower(c.firstname) \o <<".">> \o Lower(c.lastname) \o Str(user_id)
                occupation == IF c.account_type_id = 2 THEN c.occupation ELSE NoText
                crea_date == unix_timestamp(today - 1, 9)
                email == IF c.email THEN login \o <<"@", "e", "m", "a", "i", "l", ".", "f", "r">>
                         ELSE NoText
                street == IF c.street THEN <<"1", " ", "r", "u", "e", " ", "d", "u", " ", "P",
                    "a", "i", "x">>
                          ELSE NoText
                phone == IF c.phone THEN <<"0", "6", "1">> ELSE NoText
            IN  <<IntV(user_id), TextV(login), TextV(<<"p", "a", "s", "s">> \o Str(user_id)),
                  TextV(c.firstname), TextV(c.lastname),
                  TextOrNull(email),
                  TextOrNull(street),
                  IF street # NoText THEN IntV(75001) ELSE Null,
                  IF street # NoText THEN TextV(<<"P", "a", "r", "i", "s">>) ELSE Null,
                  TextOrNull(phone),
                  IntV(1), IntV(c.account_type_id), Null, Null, Null,
                  TextV(UpperPrefix(c.firstname, 3) \o <<"0", "0">> \o Str(user_id)), Null,
                  TextOrNull(occupation),
                  IntV(crea_date), IntV(crea_date), Null, Null, IntV(0), IntV(97)>>
    IN  [i \in 1..num_users |-> UserValues(i, choices[i])]

\* one tuple of generate_authors, lines 213-231
generate_authors(num_authors, choices) ==
    LET AuthorValues(author_id, c) ==
            LET key == IF c.firstname # NoText
                       THEN Lower(c.lastname) \o <<"_">> \o Lower(c.firstname)
                                \o <<"_">> \o Str(author_id)
                       ELSE Lower(c.lastname) \o <<"_">> \o Str(author_id)
                bio == IF c.bio
                       THEN <<"A", "u", "t", "h", "o", "r", " ">> \o c.lastname
                       ELSE NoText
                notes == IF c.notes THEN <<"N", "o", "t", "e", "s",
                    " ">> \o c.lastname ELSE NoText
            IN  <<IntV(author_id), TextV(key), TextV(c.lastname), TextOrNull(c.firstname),
                  TextOrNull(bio), TextOrNull(notes)>>
    IN  [i \in 1..num_authors |-> AuthorValues(i, choices[i])]

\* names[i] if i < len(names) else f"{word} {i+1}", for the 0-based i = n - 1
NameOrNumbered(names, word, n) ==
    IF n - 1 < Len(names) THEN names[n] ELSE word \o <<" ">> \o Str(n)

\* one tuple of generate_series, lines 242-250 (the list holds one name, so
\* random.choice has one outcome)
generate_series(num_series) ==
    LET SeriesValues(series_id) ==
            LET name == NameOrNumbered(<<<<"A", "s", "t", "e", "r", "i", "x">>>>, <<"S", "e", "r",
                "i", "e">>, series_id)
            IN  <<IntV(series_id), TextV(KeyOf(name)), TextV(name)>>
    IN  [i \in 1..num_series |-> SeriesValues(i)]

\* one tuple of generate_items, lines 261-317
\* generate_items: [statements, item_specimen_counts]
generate_items(num_items, choices, today) ==
    LET ItemValues(item_id, c) ==
            LET title == NameOrNumbered(<<<<"L", "A", "v", "a", "r", "e">>>>, <<"L", "i", "v",
                "r", "e">>, item_id)
                title2 == IF c.title2 THEN <<"T", "o", "m", "e", " ", "1">> ELSE NoText
                serie_id == IF c.serie THEN 1 ELSE 0
                serie_vol == IF serie_id # 0 THEN 1 ELSE 0
                collection_id == IF c.collection THEN 1 ELSE 0
                subject == CHOOSE x \in {<<"A", "r", "t">>} : TRUE
                keywords == Lower(title) \o <<",", " ">> \o Lower(subject)
                crea_date == unix_timestamp(today - 1, 9)
                Ids(n) == IF c.num_auth > n - 1 THEN [k |-> "array", v |-> 1] ELSE Null
                Func(n) == IF c.num_auth > n - 1 THEN TextV(<<"7", "0">>) ELSE Null
            IN  <<IntV(item_id), TextV(<<"b">>), TextV(<<"9", "7", "8", "-", "2">>), Null, Null,
                Null,
                  TextV(<<"1", "8", "0", "0">>), IntV(1), IntV(1),
                  TextOrNull(title),
                  TextOrNull(title2), Null, Null,
                  Ids(1), Func(1), Ids(2), Func(2), Ids(3), Func(3),
                  IntOrNull(serie_id), IntOrNull(serie_vol),
                  IntOrNull(collection_id), Null, Null,
                  IntV(1), Null, Null, IntV(1), TextV(subject),
                  IntV(97), IntV(1), TextV(<<"2", "0", "2", "4">>),
                  TextV(<<"1", "0", "0", " ", "p", ".">>), Null, Null, Null, Null, Null,
                      TextV(keywords),
                  IntV(c.nb_specimens), Null, IntV(0), Null, IntV(1), IntV(crea_date),
                      IntV(crea_date)>>
    IN  [statements |-> [i \in 1..num_items |-> ItemValues(i, choices[i])],
         item_specimen_counts |-> [i \in 1..num_items |-> choices[i].nb_specimens]]

\* the pairs <<item_id, j>> of the two loops of generate_specimens, in order
RECURSIVE SpecimenSlots(_, _)
SpecimenSlots(specimen_counts, item_id) ==
    IF item_id > Len(specimen_counts) THEN <<>>
    ELSE [j \in 1..specimen_counts[item_id] |-> <<item_id,
        j - 1>>] \o SpecimenSlots(specimen_counts, item_id + 1)

\* one tuple of generate_specimens, lines 335-351
\* generate_specimens: [statements, specimen_item_map]; the map holds the
\* borrowable specimens only
generate_specimens(specimen_counts, choices, today) ==
    LET SpecimenValues(specimen_id, item_id, j, c) ==
            LET identification == <<"L", "I", "V", "-">> \o Str(item_id) \o <<"-", <<"A", "B",
                "C", "D", "E">>[j + 1]>>
                cote == <<"R", " ", "I", "T", "M", " ">> \o Str(item_id)
                status == IF c.borrowable THEN 98 ELSE 110
                price == IF c.price THEN <<"5", ".", "0", "0">> ELSE NoText
                crea_date == unix_timestamp(today - 1, 9)
            IN  <<IntV(specimen_id), IntV(item_id), IntV(1), TextV(identification),
                  TextV(cote), IntV(1), IntV(status),
                  TextOrNull(price), IntV(crea_date), IntV(crea_date)>>
        slots == SpecimenSlots(specimen_counts, 1)
    IN  [statements |-> [n \in 1..Len(slots) |->
                            SpecimenValues(n, slots[n][1], slots[n][2], choices[n])],
         specimen_item_map |-> [n \in {x \in 1..Len(slots) : choices[x].borrowable} |->
                                   slots[n][1]]]

\* the days between start_date and end_date (180 in main()), the loans and
\* returns drawn per workday (random.randint(5, 40)) and the days added to
\* the loan date of a return that would precede it (random.randint(1, 30)),
\* all scaled
LoanDays == 3
MaxPerDay == 2
MaxReturnDelay == 2
\* days_before = random.randint(0, 2)
MaxDaysBefore == 2

\* one tuple of returned_loans, lines 403-412
ReturnedValues(loan_id, loan, specimen_id, return_date, v) ==
    LET loan_timestamp == unix_timestamp(loan.loan_date, IF v = "low" THEN 9 ELSE 17)
        issue_timestamp == unix_timestamp(loan.loan_date + (IF v = "low" THEN 0 ELSE 3),
                                          IF v = "low" THEN 9 ELSE 17)
        return_timestamp == unix_timestamp(return_date, IF v = "low" THEN 14 ELSE 18)
        nb_renews == IF v = "low" THEN 0 ELSE 2
    IN  <<IntV(loan_id), IntV(loan.user_id), IntV(specimen_id), IntV(loan.item_id),
          IntV(loan_timestamp), IntV(issue_timestamp), IntV(nb_renews),
          IntV(return_timestamp), Null>>

\* one tuple of current_loans, lines 426-438 and 445-451
CurrentValues(loan_id, loan, specimen_id, v) ==
    LET loan_timestamp == unix_timestamp(loan.loan_date, IF v = "low" THEN 9 ELSE 17)
        issue_timestamp == unix_timestamp(loan.loan_date + (IF v = "low" THEN 0 ELSE 3),
                                          IF v = "low" THEN 9 ELSE 17)
        nb_renews == IF v = "low" THEN 0 ELSE 1
    IN  <<IntV(loan_id), IntV(loan.user_id), IntV(specimen_id), IntV(loan.item_id),
          IntV(loan_timestamp), IntV(issue_timestamp), IntV(nb_renews), Null>>

\* main() of the generator about to call generate_users, with the loans
\* starting on day start: out holds the INSERT statements the last step
\* appended to sql_lines, the other fields are the variables of main() and of
\* generate_loans
GenStart(start, variant) ==
    [pc |-> "users", out |-> <<>>, today |-> start + LoanDays, variant |-> variant,
     start_date |-> start, end_date |-> start + LoanDays,
     item_specimen_counts |-> <<>>, specimen_item_map |-> <<>>,
     current_date |-> start, phase |-> "day", num_loans |-> 0,
     returns_left |-> 0, loans_left |-> 0,
     specimen_available |-> {}, specimen_loaned |-> <<>>, loan_id |-> 1,
     current_loans |-> <<>>, returned_loans |-> <<>>]

\* the generator is not running
GenIdle == [GenStart(0, "low") EXCEPT !.pc = "idle"]

migrator == <<argv, batch, args, argon2, src, db, db0, pc, response, opened,
              use_timestamptz, mig, mig_ok, passes, finished, writes, counts,
              faulted, banner, exit_code>>

\* lines 564-567
GenUsers ==
    /\ gen.pc = "users"
    /\ \E ch \in [1..NumUsers -> [firstname : {<<"S", "a", "r", "a", "h">>, <<"L", "e", "a">>},
           lastname : {<<"A", "r", "n", "a", "u", "d">>}, account_type_id : {1, 2},
           occupation : {<<"A", "v", "o", "c", "a", "t">>, <<"C", "h", "e", "f", " ", "d", "e",
           "n", "t", "r", "e", "p", "r", "i", "s", "e">>}, email : BOOLEAN, street : BOOLEAN,
           phone : BOOLEAN]] :
        gen' = [gen EXCEPT !.pc = "authors",
                           !.out = <<Insert("users", <<"id", "login", "password", "firstname",
                               "lastname", "email", "addr_street", "addr_zip_code", "addr_city",
                               "phone", "sex_id", "account_type_id", "subscription_type_id",
                               "fee_id", "group_id", "barcode", "notes", "occupation",
                               "crea_date", "modif_date", "issue_date", "birthdate",
                               "archived_date", "public_type">>,
                                            generate_users(NumUsers, ch, gen.today))>>]
    /\ UNCHANGED migrator

\* lines 587-590
GenAuthors ==
    /\ gen.pc = "authors"
    /\ \E ch \in [1..NumAuthors -> [lastname : {<<"S", "a", "r", "t", "r", "e">>},
           firstname : {<<"A", "l", "b", "e", "r", "t">>, NoText}, bio : BOOLEAN,
           notes : BOOLEAN]] :
        gen' = [gen EXCEPT !.pc = "editions",
                           !.out = <<Insert("authors", <<"id", "key", "lastname", "firstname",
                               "bio", "notes">>,
                                            generate_authors(NumAuthors, ch))>>]
    /\ UNCHANGED migrator

\* lines 609-614
GenEditions ==
    /\ gen.pc = "editions"
    /\ LET name(i) == NameOrNumbered(<<<<"J", "a", "i", " ", "l", "u">>>>,
                                     <<"E", "d", "i", "t", "i", "o", "n">>, i)
           values(i) == <<IntV(i), TextV(KeyOf(name(i))), TextV(name(i)),
                          TextV(<<"P", "a", "r", "i", "s">>), Null>>
       IN  gen' = [gen EXCEPT !.pc = "collections",
                              !.out = <<Insert("editions",
                                               <<"id", "key", "name", "place", "notes">>,
                                               [i \in 1..NumEditions |-> values(i)])>>]
    /\ UNCHANGED migrator

\* lines 634-639
GenCollections ==
    /\ gen.pc = "collections"
    /\ LET name(i) == NameOrNumbered(<<<<"E", "s", "s", "a", "i">>>>,
                                     <<"C", "o", "l", "l", "e", "c", "t", "i", "o", "n">>, i)
           values(i) == <<IntV(i), TextV(KeyOf(name(i))), TextV(name(i)), Null, Null, Null>>
       IN  gen' = [gen EXCEPT !.pc = "series",
                              !.out = <<Insert("collections",
                                               <<"id", "key", "title1", "title2", "title3",
                                                   "issn">>,
                                               [i \in 1..NumCollections |-> values(i)])>>]
    /\ UNCHANGED migrator

\* lines 656-659
GenSeries ==
    /\ gen.pc = "series"
    /\ gen' = [gen EXCEPT !.pc = "items",
                          !.out = <<Insert("series", <<"id", "key", "name">>,
                                           generate_series(NumSeries))>>]
    /\ UNCHANGED migrator

\* lines 740-750
GenItems ==
    /\ gen.pc = "items"
    /\ \E ch \in [1..NumItems -> [title2 : BOOLEAN, num_auth : 1..3, serie : BOOLEAN,
           collection : BOOLEAN, nb_specimens : 1..MaxSpecimens]] :
        LET r == generate_items(NumItems, ch, gen.today)
        IN  gen' = [gen EXCEPT !.pc = "specimens",
                               !.out = InsertBatches("items", <<"id", "media_type",
                                   "identification", "price", "barcode", "dewey",
                                   "publication_date", "lang", "lang_orig", "title1", "title2",
                                   "title3", "title4", "author1_ids", "author1_functions",
                                   "author2_ids", "author2_functions", "author3_ids",
                                   "author3_functions", "serie_id", "serie_vol_number",
                                   "collection_id", "collection_number_sub",
                                   "collection_vol_number", "source_id", "source_date",
                                   "source_norme", "genre", "subject", "public_type",
                                   "edition_id", "edition_date", "nb_pages", "format", "content",
                                   "addon", "abstract", "notes", "keywords", "nb_specimens",
                                   "state", "is_archive", "archived_timestamp", "is_valid",
                                   "crea_date", "modif_date">>,
                                                     r.statements, GenBatchSize),
                               !.item_specimen_counts = r.item_specimen_counts]
    /\ UNCHANGED migrator

\* lines 779-790, and the first lines of generate_loans (369-375)
GenSpecimens ==
    /\ gen.pc = "specimens"
    /\ \E ch \in [1..Len(SpecimenSlots(gen.item_specimen_counts, 1)) -> [borrowable : BOOLEAN,
           price : BOOLEAN]] :
        LET r == generate_specimens(gen.item_specimen_counts, ch, gen.today)
        IN  gen' = [gen EXCEPT !.pc = "loans",
                               !.out = InsertBatches("specimens", <<"id", "id_item", "source_id",
                                   "identification", "cote", "place", "status", "price",
                                   "crea_date", "modif_date">>,
                                                     r.statements, GenBatchSize),
                               !.specimen_item_map = r.specimen_item_map,
                               !.specimen_available = DOMAIN r.specimen_item_map]
    /\ UNCHANGED migrator

\* lines 376-383: the head of the while loop of generate_loans
GenDay ==
    /\ gen.pc = "loans"
    /\ gen.phase = "day"
    /\ IF gen.current_date > gen.end_date
       THEN gen' = [gen EXCEPT !.pc = "rest", !.out = <<>>]
       ELSE IF ~is_workday(gen.current_date)
       THEN gen' = [gen EXCEPT !.current_date = @ + 1, !.out = <<>>]
       ELSE \E num_loans \in 1..MaxPerDay, num_returns \in 1..MaxPerDay :
               LET loaned == Cardinality(DOMAIN gen.specimen_loaned)
               IN  gen' = [gen EXCEPT !.phase = "returns", !.out = <<>>,
                                      !.num_loans = num_loans,
                                      !.returns_left =
                                          IF num_returns < loaned THEN num_returns
                                          ELSE loaned]
    /\ UNCHANGED migrator

\* lines 386-413: one return
GenReturn ==
    /\ gen.pc = "loans"
    /\ gen.phase = "returns"
    /\ gen.returns_left > 0
    /\ \E specimen_id \in DOMAIN gen.specimen_loaned, early \in BOOLEAN,
          days_before \in 0..MaxDaysBefore, delay \in 1..MaxReturnDelay :
        LET loan == gen.specimen_loaned[specimen_id]
            before == gen.current_date - days_before
            return_date == IF ~early THEN gen.current_date
                           ELSE IF before < loan.loan_date THEN loan.loan_date + delay
                           ELSE before
        IN  gen' = [gen EXCEPT
                       !.specimen_loaned = [x \in DOMAIN @ \ {specimen_id} |-> @[x]],
                       !.specimen_available = @ \cup {specimen_id},
                       !.returned_loans =
                           Append(@, ReturnedValues(gen.loan_id, loan, specimen_id,
                                                    return_date, gen.variant)),
                       !.loan_id = @ + 1,
                       !.returns_left = @ - 1]
    /\ UNCHANGED migrator

\* line 416: the number of loans of the day
GenStartLoans ==
    /\ gen.pc = "loans"
    /\ gen.phase = "returns"
    /\ gen.returns_left = 0
    /\ LET available == Cardinality(gen.specimen_available)
       IN  gen' = [gen EXCEPT !.phase = "loans",
                              !.loans_left = IF gen.num_loans < available
                                             THEN gen.num_loans ELSE available]
    /\ UNCHANGED migrator

\* lines 416-439: one loan
GenLoan ==
    /\ gen.pc = "loans"
    /\ gen.phase = "loans"
    /\ gen.loans_left > 0
    /\ \E specimen_id \in gen.specimen_available, user_id \in 1..NumUsers,
          later \in BOOLEAN :
        LET loan == [user_id |-> user_id, loan_date |-> gen.current_date,
                     item_id |-> gen.specimen_item_map[specimen_id]]
        IN  gen' = [gen EXCEPT
                       !.specimen_available = @ \ {specimen_id},
                       !.specimen_loaned =
                           IF later
                           THEN [x \in DOMAIN @ \cup {specimen_id} |->
                                    IF x = specimen_id THEN loan ELSE @[x]]
                           ELSE @,
                       !.current_loans =
                           IF later THEN @
                           ELSE Append(@, CurrentValues(gen.loan_id, loan, specimen_id,
                               gen.variant)),
                       !.loan_id = IF later THEN @ ELSE @ + 1,
                       !.loans_left = @ - 1]
    /\ UNCHANGED migrator

\* line 441
GenEndDay ==
    /\ gen.pc = "loans"
    /\ gen.phase = "loans"
    /\ gen.loans_left = 0
    /\ gen' = [gen EXCEPT !.phase = "day", !.current_date = @ + 1]
    /\ UNCHANGED migrator

\* lines 444-452: the loans never returned, in the order of the specimen ids
RECURSIVE RemainingLoans(_, _, _)
RemainingLoans(loaned, loan_id, v) ==
    IF DOMAIN loaned = {} THEN <<>>
    ELSE LET specimen_id == CHOOSE x \in DOMAIN loaned : \A y \in DOMAIN loaned : x <= y
         IN  <<CurrentValues(loan_id, loaned[specimen_id], specimen_id, v)>> \o
             RemainingLoans([x \in DOMAIN loaned \ {specimen_id} |-> loaned[x]],
                            loan_id + 1, v)

GenRest ==
    /\ gen.pc = "rest"
    /\ LET rest == RemainingLoans(gen.specimen_loaned, gen.loan_id, gen.variant)
        IN  gen' = [gen EXCEPT !.pc = "write_loans",
                               !.current_loans = @ \o rest,
                               !.loan_id = @ + Len(rest)]
    /\ UNCHANGED migrator

\* lines 817-837
GenWriteLoans ==
    /\ gen.pc = "write_loans"
    /\ gen' = [gen EXCEPT
                  !.pc = "done",
                  !.out = InsertBatches("borrows", <<"id", "user_id", "specimen_id", "item_id",
                      "date", "issue_date", "nb_renews", "returned_date", "notes">>,
                                        gen.returned_loans, GenBatchSize) \o
                          InsertBatches("borrows", <<"id", "user_id", "specimen_id", "item_id",
                              "date", "issue_date", "nb_renews", "notes">>,
                                        gen.current_loans, GenBatchSize)]
    /\ UNCHANGED migrator

NextGen ==
    \/ GenUsers
    \/ GenAuthors
    \/ GenEditions
    \/ GenCollections
    \/ GenSeries
    \/ GenItems
    \/ GenSpecimens
    \/ GenDay
    \/ GenReturn
    \/ GenStartLoans
    \/ GenLoan
    \/ GenEndDay
    \/ GenRest
    \/ GenWriteLoans

\* ---------------------------------------------------------------- inputs
\* rows per source table in a run of main()
MainRows == 1

\* a real epoch
Epoch == 5

DateVals == {Null, IntV(0), IntV(Epoch)}

SrcUser(id, login, password, crea, arch) ==
    [id |-> id, login |-> login, password |-> password,
     crea_date |-> crea, archived_date |-> arch]

SrcBorrow(id, user_id, date, returned) ==
    [id |-> id, user_id |-> user_id, date |-> date, returned_date |-> returned]

SrcArchive(id, date, returned) ==
    [id |-> id, date |-> date, returned_date |-> returned]

\* A source database with n rows in every table, whose nullable date columns
\* hold d, whose items and specimens have is_archive = a and whose first user
\* has login l; the ids of the users start at 2 (the target's seeded admin
\* has id 1).
Source(n, d, a, l) ==
    [account_types |-> [i \in 1..n |-> AccountType("Custom")],
     users |-> [i \in 1..n |-> SrcUser(i + 1, IF i = 1 THEN l ELSE l \o Str(i),
                                       <<"p">>, d, d)],
     borrows |-> [i \in 1..n |-> SrcBorrow(i, i + 1, IntV(Epoch), d)],
     archives |-> [i \in 1..n |-> SrcArchive(i + n, IntV(Epoch), d)],
     items |-> [i \in 1..n |-> [is_archive |-> a, archived_timestamp |-> d,
                                crea_date |-> d]],
     specimens |-> [i \in 1..n |-> [is_archive |-> a, archive_date |-> d,
                                    crea_date |-> d]],
     copy |-> [t \in CopyPasses |-> 1..n]]

\* no batch of items or specimens was read yet
NoBatch == [p \in {"items", "specimens"} |-> [commits |-> 0, reads |-> <<>>]]

InitControl ==
    /\ pc = "parse"
    /\ gen = GenIdle
    /\ batch = NoBatch
    /\ response = NoText
    /\ opened = FALSE
    /\ use_timestamptz = FALSE
    /\ mig = 1
    /\ mig_ok = "none"
    /\ passes = <<>>
    /\ finished = {}
    /\ writes = {}
    /\ counts = [active |-> 0, archived |-> 0]
    /\ faulted = FALSE
    /\ banner = FALSE
    /\ exit_code = -1

Init ==
    /\ argv \in SUBSET {"--reset", "--yes", "--skip-items", "--skip-users", "--no-hash"}
    /\ args = NoArgs
    /\ argon2 \in BOOLEAN
    /\ src \in {Source(n, d, a, l) : n \in 0..MainRows, d \in DateVals, a \in {0, 1},
           l \in {<<"a">>, Admin}}
    /\ db0 \in {EmptyDb, Migrated(3, EmptyDb), Migrated(NumMigrations, EmptyDb)}
    /\ db = db0
    /\ InitControl

Spec == Init /\ [][Next]_vars

\* ---------------------------------------------------------------- migrate_users alone
\* ids of source rows
MaxId == 3
\* source users when every column varies, and when only the login varies
MaxUsers == 1
MaxLoginUsers == 3

\* the sequences of at most n elements of S with pairwise different ids
RowSeqs(S, n) ==
    {q \in UNION {[1..k -> S] : k \in 0..n} :
        \A i, j \in DOMAIN q : i # j => q[i].id # q[j].id}

NoSource == Source(0, Null, 0, <<"a">>)

\* The target when main() reaches a data pass, with the value of
\* use_timestamptz: after ten migrations on an empty or INTEGER target
\* (detected before them), after --reset of a migrated target, or after the
\* migrations were run again on a migrated target.
MigratedDb == Migrated(NumMigrations, EmptyDb)

\* main() about to call the pass at position i of PassOrder
InitAtPass(i) ==
    /\ gen = GenIdle
    /\ argv = {}
    /\ batch = NoBatch
    /\ args = [reset |-> FALSE, yes |-> FALSE, skip_users |-> FALSE, skip_items |-> FALSE,
           hash_passwords |-> TRUE]
    /\ argon2 = TRUE
    /\ pc = PassOrder[i]
    /\ response = NoText
    /\ opened = TRUE
    \* the target is fully migrated, or is the database a rerun finds: fully migrated
    \* and then taken through migrations 1 to 3 once more
    /\ \E st \in {<<MigratedDb, TRUE>>, <<MigratedDb, FALSE>>,
                  <<run_migration_add_fulltext_search(
                        run_migration_add_password_hash(
                            run_migration_initial_schema(MigratedDb).db).db).db,
                    TRUE>>} :
           db0 = st[1] /\ use_timestamptz = st[2]
    /\ db = db0
    /\ mig = NumMigrations + 1
    /\ mig_ok = "true"
    /\ passes = SubSeq(PassOrder, 1, i - 1)
    /\ finished = Range(passes)
    /\ writes = {}
    /\ counts = [active |-> 0, archived |-> 0]
    /\ faulted = FALSE
    /\ banner = FALSE
    /\ exit_code = -1

InitUsers ==
    /\ \E us \in RowSeqs({SrcUser(i, l, <<"p">>, IntV(Epoch), Null) : i \in 1..MaxId,
           l \in {NoText, <<" ">>, <<"a">>, <<"A">>, <<"a", "_", "1">>, Admin}},
           MaxLoginUsers) \cup RowSeqs({SrcUser(i, l, p, IntV(Epoch), d) : i \in 1..MaxId,
           l \in {NoText, <<"a">>, Admin}, p \in {NoText, <<>>, <<"p">>, ArgonPrefix \o <<"x">>},
           d \in DateVals}, MaxUsers) :
        src = [NoSource EXCEPT !.users = us]
    /\ InitAtPass(2)

NextUsers == MigrateUsers

SpecUsers == InitUsers /\ [][NextUsers]_vars

\* ---------------------------------------------------------------- the loans passes alone
MaxLoans == 2
MaxArchives == 2

InitLoans ==
    /\ \E bs \in RowSeqs({SrcBorrow(i, 2, dt, r) : i \in 1..MaxId, dt \in {IntV(0), IntV(Epoch)},
           r \in DateVals}, MaxLoans), as \in RowSeqs({SrcArchive(i, IntV(Epoch),
           IntV(Epoch)) : i \in 1..MaxId}, MaxArchives) :
        src = [NoSource EXCEPT !.borrows = bs, !.archives = as]
    /\ InitAtPass(10)

NextLoans ==
    \/ MigrateLoans
    \/ MigrateLoansArchives

SpecLoans == InitLoans /\ [][NextLoans]_vars

\* ---------------------------------------------------------------- main() from migrate_sources on
\* ids of the source items and specimens
MaxBatchRows == 5

\* one source row in sources, any ids in items and in specimens
InitBatch ==
    /\ \E I \in SUBSET (1..MaxBatchRows), S \in SUBSET (1..MaxBatchRows) :
        src = [NoSource EXCEPT !.items = [i \in I |-> [is_archive |-> 0,
            archived_timestamp |-> Null, crea_date |-> Null]],
                               !.specimens = [i \in S |-> [is_archive |-> 0,
                                   archive_date |-> Null, crea_date |-> Null]],
                               !.copy["sources"] = {1}]
    /\ InitAtPass(7)

NextBatch ==
    \/ MigrateCopy
    \/ MigrateItems
    \/ MigrateSpecimens
    \/ MigrateLoans
    \/ MigrateLoansArchives
    \/ ResetSequences
    \/ Banner

SpecBatch == InitBatch /\ [][NextBatch]_vars

\* ---------------------------------------------------------------- the generator alone
\* the loans start on a Monday (a holiday follows) or on a Saturday (a
\* Sunday follows); the migrator does not run
InitGen ==
    /\ gen \in {GenStart(start, v) : start \in {0, 5}, v \in {"low", "high"}}
    /\ argv = {}
    /\ batch = NoBatch
    /\ args = NoArgs
    /\ argon2 = TRUE
    /\ src = NoSource
    /\ db0 = EmptyDb
    /\ db = db0
    /\ pc = "idle"
    /\ response = NoText
    /\ opened = FALSE
    /\ use_timestamptz = FALSE
    /\ mig = 1
    /\ mig_ok = "none"
    /\ passes = <<>>
    /\ finished = {}
    /\ writes = {}
    /\ counts = [active |-> 0, archived |-> 0]
    /\ faulted = FALSE
    /\ banner = FALSE
    /\ exit_code = -1

SpecGen == InitGen /\ [][NextGen]_vars

\* ---------------------------------------------------------------- claims
\* C1: every date value a data pass hands to an INSERT is an integer epoch
\* when the target column is INTEGER at that time and a timestamp when it is
\* TIMESTAMPTZ (a NULL fits both), in every run of main().
C1_DatesMatchColumnType ==
    \A w \in writes : \A d \in w.dates :
        d.val # Null => ((d.val.k = "ts") <=> d.tstz)

\* C2: after migrate_loans and migrate_loans_archives on a target whose
\* archive table started empty, the archive table holds one row for every
\* returned source borrow and one for every source borrows_archives row.
C2_ArchiveRowCount ==
    ("loans_archives" \in finished /\ db0.rows[archives_table_name(db0.schema)] = <<>>)
    => Cardinality(DOMAIN db.rows[archives_table_name(db.schema)])
       = Cardinality({i \in DOMAIN src.borrows :
                         src.borrows[i].returned_date \notin {Null, IntV(0)}})
         + Len(src.archives)

\* C3: every login migrate_users puts in an INSERT is non-empty, and the first
\* INSERTs of two different user ids never carry the same login.
C3_LoginsRequiredAndUnique ==
    \A w1, w2 \in writes :
        (w1.pass = "users" /\ w1.try = 1)
        => /\ w1.login \notin {NoText, <<>>}
           /\ (w2.pass = "users" /\ w2.try = 1 /\ w1.id # w2.id) => w1.login # w2.login

\* C4: when migrate_loans has returned, every source borrow was handed to
\* exactly one INSERT, into the archive table if and only if its source
\* returned_date is neither NULL nor 0 and into the loans table otherwise; it
\* is a row of that table and of no other; active_count + archived_count is
\* the number of source borrows; no loans row has a real returned_date.
C4_ReturnedLoansArchived ==
    pc = "loans_archives" =>
        LET lt == IF "loans" \in db.schema.tables THEN "loans" ELSE "borrows"
            at == IF "loans" \in db.schema.tables THEN "loans_archives"
                  ELSE "borrows_archives"
        IN  /\ \A i \in DOMAIN src.borrows :
                LET b == src.borrows[i]
                    ws == {w \in writes : w.pass = "loans" /\ w.id = b.id}
                    returned == b.returned_date \notin {Null, IntV(0)}
                IN  /\ Cardinality(ws) = 1
                    /\ \A w \in ws : w.table = (IF returned THEN at ELSE lt)
                    /\ (b.id \in DOMAIN db.rows[at]) <=> returned
                    /\ (b.id \in DOMAIN db.rows[lt]) <=> ~returned
            /\ counts.active + counts.archived = Len(src.borrows)
            /\ \A id \in DOMAIN db.rows[lt] :
                db.rows[lt][id].returned_date \in {Null, IntV(0)}

C4_Witness ==
    /\ pc = "loans_archives"
    /\ counts.active > 0
    /\ counts.archived > 0

YesAnswers == {<<y, e, z>> : y \in {"y", "Y"}, e \in {"e", "E"}, z \in {"s", "S"}}

\* C6: in a run with --reset and without --yes, a connection is opened or the
\* target changed only after the operator answered 'yes' (in any case); any
\* other answer ends the run with exit status 0, the target untouched and no
\* connection opened.
C6_ResetNeedsConfirmation ==
    (args.reset /\ ~args.yes) =>
        /\ (opened \/ db # db0) => response \in YesAnswers
        /\ (response # NoText /\ response \notin YesAnswers)
           => (pc = "done" /\ exit_code = 0 /\ db = db0 /\ ~opened)

C6_Witness ==
    /\ args.reset
    /\ ~args.yes
    /\ response = <<"n", "o">>
    /\ pc = "done"
    /\ exit_code = 0

\* C7 as stated: no INSERT is a second attempt for its row.
C7_NoRowRetried == \A w \in writes : w.try = 1

\* C7 as amended: a row is attempted at most twice; a second attempt is made
\* only by migrate_users and only after the first failed with an integrity
\* error on the login; every other failed INSERT, and the second attempt, end
\* the run through the top-level handler.
C7_RetryOnlyOnLoginConflict ==
    \A w \in writes :
        /\ w.try \in {1, 2}
        /\ w.try = 2 =>
            /\ w.pass = "users"
            /\ \E w1 \in writes :
                w1.pass = "users" /\ w1.id = w.id /\ w1.try = 1 /\ w1.err = "login"
        /\ (w.try = 1 /\ w.err # "login") =>
            ~\E w2 \in writes : w2.pass = w.pass /\ w2.id = w.id /\ w2.try = 2
        /\ w.err # "none" => (pc = "done" /\ exit_code = 1)

C7_Witness ==
    \E w \in writes : w.try = 2 /\ w.err = "aborted" /\ exit_code = 1

DataPasses ==
    {"account_types", "users", "authors", "editions", "collections", "series",
     "sources", "items", "specimens", "loans", "loans_archives", "settings",
     "z3950servers", "fees"}

SkippedByFlags ==
    (IF args.skip_users THEN {"users"} ELSE {}) \cup
    (IF args.skip_items THEN {"items", "specimens"} ELSE {})

\* C8: a run that ends with status 0 either printed the banner or was
\* cancelled at the prompt; the banner is printed only when every data pass
\* that is not skipped and reset_sequences have returned, and never in a run
\* that exits non-zero; a run in which a called pass did not return exits 1.
C8_ErrorsExitNonZero ==
    /\ banner => /\ exit_code = 0
                 /\ (DataPasses \ SkippedByFlags) \cup {"reset_sequences"} \subseteq finished
    /\ (pc = "done" /\ exit_code = 0)
       => (banner \/ (response # NoText /\ response \notin YesAnswers))
    /\ (pc = "done" /\ \E i \in DOMAIN passes : passes[i] \notin finished)
       => (exit_code = 1 /\ ~banner)
    /\ exit_code \in {-1, 0, 1, 2}

C8_Witness ==
    /\ pc = "done"
    /\ exit_code = 1
    /\ ~banner
    /\ \E i \in DOMAIN passes : passes[i] = "loans" /\ "loans" \notin finished

\* C9: run_schema_migrations applied (without a failure of the environment)
\* to a target on which all ten migrations were applied returns True and
\* leaves the tables, the columns and the column types as they were.
C9_MigrationsRerunnable ==
    (db0 = MigratedDb /\ ~args.reset /\ ~faulted /\ pc = "account_types")
    => (mig_ok = "true" /\ db.schema = db0.schema)

\* C10: no pass is called twice; a pass that depends on another is called
\* after it, and only when the other has returned or is skipped by a flag;
\* reset_sequences is called only when every data pass not skipped has returned.
C10_DependencyOrder ==
    LET Pos(p) == {i \in DOMAIN passes : passes[i] = p}
        Before(a, b) ==
            /\ \A i \in Pos(a), j \in Pos(b) : i < j
            /\ Pos(b) # {} => (a \in finished \/ a \in SkippedByFlags)
    IN  /\ \A p \in DataPasses \cup {"reset_sequences"} : Cardinality(Pos(p)) <= 1
        /\ Before("account_types", "users")
        /\ \A a \in {"users", "authors", "editions", "collections", "series", "sources"} :
            Before(a, "items")
        /\ Before("items", "specimens")
        /\ Before("specimens", "loans")
        /\ Before("loans", "loans_archives")
        /\ \A a \in DataPasses : Before(a, "reset_sequences")

C10_Witness ==
    /\ "reset_sequences" \in finished
    /\ SkippedByFlags = {}
    /\ Len(passes) = 15

\* C11: with --skip-users no users INSERT is issued, the users pass is not
\* called and no source user becomes a target row; with --skip-items neither
\* the items nor the specimens pass is called or writes; the data passes
\* called are always a prefix of the full order with the skipped ones left
\* out, and all of it when the run completes.
C11_SkipFlagsHonoured ==
    LET full == <<"account_types", "users", "authors", "editions", "collections",
                  "series", "sources", "items", "specimens", "loans",
                  "loans_archives", "settings", "z3950servers", "fees">>
        Out(p) == \/ "--skip-users" \in argv /\ p = "users"
                  \/ "--skip-items" \in argv /\ p \in {"items", "specimens"}
        Kept(p) == ~Out(p)
        IsData(p) == p # "reset_sequences"
        kept == SelectSeq(full, Kept)
        data == SelectSeq(passes, IsData)
    IN  /\ \A i \in DOMAIN passes : ~Out(passes[i])
        /\ \A w \in writes : ~Out(w.pass)
        /\ "--skip-users" \in argv =>
            \A i \in DOMAIN src.users :
                src.users[i].id \notin DOMAIN db.rows["users"]
        /\ "--skip-items" \in argv =>
            /\ DOMAIN db.rows["items"] \subseteq DOMAIN db0.rows["items"]
            /\ DOMAIN db.rows["specimens"] \subseteq DOMAIN db0.rows["specimens"]
        /\ Len(data) <= Len(kept)
        /\ data = SubSeq(kept, 1, Len(data))
        /\ banner => data = kept

C11_Witness ==
    /\ banner
    /\ {"--skip-users", "--skip-items"} \subseteq argv
    /\ Len(src.users) > 0
    /\ Len(passes) = 12

\* C12: a command line that carries --no-hash is accepted by the parser and
\* gives a run with password hashing turned off.
C12_NoHashRecognised ==
    ("--no-hash" \in argv /\ pc # "parse")
    => (exit_code # 2 /\ ~args.hash_passwords)

\* C13: every tuple generate_loans emits has its loan date on a workday
\* (not a Sunday, not a holiday), and every returned tuple has its return
\* date on a workday too.
C13_LoansOnWorkdays ==
    LET Workday(ts) == (ts \div 24) % 7 # 6 /\ (ts \div 24) \notin ALL_HOLIDAYS
    IN  /\ \A i \in DOMAIN gen.current_loans : Workday(gen.current_loans[i][5].v)
        /\ \A i \in DOMAIN gen.returned_loans :
            /\ Workday(gen.returned_loans[i][5].v)
            /\ Workday(gen.returned_loans[i][8].v)

\* every single quote of s is followed by a second one
RECURSIVE QuotesEscaped(_)
QuotesEscaped(s) ==
    IF s = <<>> THEN TRUE
    ELSE IF Head(s) # "'" THEN QuotesEscaped(Tail(s))
    ELSE Len(s) >= 2 /\ s[2] = "'" /\ QuotesEscaped(Tail(Tail(s)))

\* C14: every INSERT statement the generator appends has at least one row;
\* every row has as many values as the statement has columns; every row but
\* the last ends with ',' and the last with ';'; no text value holds an
\* unescaped single quote.
C14_GeneratedSqlParses ==
    \A n \in DOMAIN gen.out :
        LET st == gen.out[n]
        IN  /\ Len(st.lines) >= 1
            /\ \A i \in DOMAIN st.lines :
                /\ Len(st.lines[i].values) = Len(st.columns)
                /\ st.lines[i].end = (IF i = Len(st.lines) THEN ";" ELSE ",")
                /\ \A j \in DOMAIN st.lines[i].values :
                    st.lines[i].values[j].k = "text"
                    => QuotesEscaped(st.lines[i].values[j].s)

C14_Witness ==
    /\ gen.pc = "done"
    /\ \E n \in DOMAIN gen.out :
        /\ Len(gen.out[n].lines) = 2
        /\ Len(gen.out[n].columns) = 9
    /\ \E n \in DOMAIN gen.out : Len(gen.out[n].columns) = 8

\* C15: a run without --reset on a target on which all ten migrations were
\* applied, which meets no failure of the environment and ends with status 0,
\* leaves users.password in place, and every source user with a non-empty
\* password has a non-NULL password in the target.
C15_CredentialsKept ==
    (db0 = MigratedDb /\ "--reset" \notin argv /\ ~faulted /\ pc = "done" /\ exit_code = 0)
    => /\ HasCol(db.schema, "users", "password")
       /\ \A i \in DOMAIN src.users :
           (src.users[i].password # NoText /\ src.users[i].password # <<>>
            /\ "users" \in finished)
           => /\ src.users[i].id \in DOMAIN db.rows["users"]
              /\ db.rows["users"][src.users[i].id].password # NoText

\* C16: run_schema_migrations runs the migrations in the order 1..10 and
\* commits after each: while it runs and when it has returned, the target
\* holds exactly the effects of the migrations before the one it is at; when
\* a migration raised its effects are gone, no later one was attempted and
\* the function returned False; it returned True only after all ten.
C16_MigrationsInOrder ==
    LET start == IF args.reset THEN DropAll(db0) ELSE db0
    IN  (\/ pc \in {"migrate", "account_types"}
         \/ (pc = "done" /\ mig_ok = "false" /\ passes = <<>>))
        => /\ mig \in 1..(NumMigrations + 1)
           /\ \A k \in 1..(mig - 1) : Migration(k, Migrated(k - 1, start)).ok
           /\ db = Migrated(mig - 1, start)
           /\ (pc = "migrate") = (mig_ok = "none")
           /\ (mig_ok = "true") = (mig = NumMigrations + 1)
           /\ (pc = "done") = (mig_ok = "false" /\ args.reset)

\* C16: the fourth migration raised after the first three were committed
C16_Witness ==
    /\ pc = "account_types"
    /\ mig_ok = "false"
    /\ mig = 4
    /\ db # db0
    /\ db = Migrated(3, db0)

\* C17: the status migrate_users hands to the INSERT of a user is 2 when the
\* source archived_date is neither NULL nor 0, and 0 otherwise, whether
\* use_timestamptz is set or not.
C17_StatusIffArchived ==
    \A w \in writes :
        (w.pass = "users" /\ w.status # Null)
        => \E i \in DOMAIN src.users :
            /\ src.users[i].id = w.id
            /\ w.status = IF src.users[i].archived_date \notin {Null, IntV(0)}
                          THEN IntV(2) ELSE IntV(0)

\* C18: after an INSERT of migrate_users failed on the uniqueness of the
\* login, one further INSERT with the login '<login>_<user_id>' succeeds, the
\* user is in the target under that login and the pass returns; after an
\* integrity error that is not about the login no second INSERT is issued
\* and the error ends the run.
C18_LoginRetryInserts ==
    \A w \in writes :
        /\ (w.pass = "users" /\ w.try = 1 /\ w.err = "login" /\ ~faulted)
           => /\ \E w2 \in writes :
                   /\ w2.pass = "users" /\ w2.id = w.id /\ w2.try = 2
                   /\ w2.login = w.login \o <<"_">> \o Str(w.id)
                   /\ w2.err = "none"
              /\ w.id \in DOMAIN db.rows["users"]
              /\ db.rows["users"][w.id].login = w.login \o <<"_">> \o Str(w.id)
              /\ "users" \in finished
        /\ (w.pass = "users" /\ w.try = 1 /\ w.err = "integrity")
           => /\ ~\E w2 \in writes : w2.pass = "users" /\ w2.id = w.id /\ w2.try = 2
              /\ exit_code = 1

\* C19: nothing runs after main() has exited; when a pass raises, main()
\* exits with status 1, every row committed before the pass is in the target
\* unchanged, and the only new rows are those of the batches of BatchSize
\* rows the pass had completed (none for a pass that commits once).
C19_NoRecovery ==
    [][/\ pc # "done"
       /\ (passes' # passes /\ passes'[Len(passes')] \notin finished')
          => LET k == passes'[Len(passes')]
                 read == IF k \in DOMAIN batch THEN batch'[k].reads ELSE <<>>
                 kept == IF read = <<>> THEN 0
                         ELSE ((Len(read) - 1) \div BatchSize) * BatchSize
             IN  /\ pc' = "done"
                 /\ exit_code' = 1
                 /\ db'.schema = db.schema
                 /\ \A t \in AllTables :
                     /\ \A i \in DOMAIN db.rows[t] :
                         i \in DOMAIN db'.rows[t] /\ db'.rows[t][i] = db.rows[t][i]
                     /\ DOMAIN db'.rows[t] \ DOMAIN db.rows[t]
                        = IF t = k THEN {read[j] : j \in 1..kept} ELSE {}
      ]_vars

\* C19: migrate_items raised in its second or a later batch, after
\* migrate_sources had committed a row
C19_Witness ==
    /\ pc = "done"
    /\ exit_code = 1
    /\ passes # <<>>
    /\ passes[Len(passes)] = "items"
    /\ "sources" \in finished
    /\ "items" \notin finished
    /\ DOMAIN db.rows["sources"] = {1}
    /\ batch["items"].commits >= 1
    /\ Len(batch["items"].reads) > Cardinality(DOMAIN db.rows["items"])
    /\ DOMAIN db.rows["items"] # {}

\* C20: migrate_items and migrate_specimens, when they return, have made
\* ceil(count / BatchSize) commits, one per iteration of the while loop, and
\* have read every source row once, in ascending order of id.
C20_BatchesCoverSource ==
    \A p \in {"items", "specimens"} :
        p \in finished
        => LET count == Cardinality(DOMAIN src[p])
               reads == batch[p].reads
           IN  /\ batch[p].commits = (count + BatchSize - 1) \div BatchSize
               /\ Len(reads) = count
               /\ Range(reads) = DOMAIN src[p]
               /\ \A i, j \in DOMAIN reads : i < j => reads[i] < reads[j]

\* C20: the items filled more than one batch and left the last one partly
\* filled; the specimens had ids with a gap
C20_Witness ==
    /\ "items" \in finished
    /\ Cardinality(DOMAIN src.items) > BatchSize
    /\ Cardinality(DOMAIN src.items) % BatchSize # 0
    /\ batch["items"].commits >= 2
    /\ "specimens" \in finished
    /\ DOMAIN src.specimens = {1, 3}
    /\ batch["specimens"].reads = <<1, 3>>

\* C21: once migrate_account_types has returned, every source account_types
\* row has a target row with the same id and the same value in each of the
\* other seven columns, also when the target already held a row with that id.
C21_AccountTypesCopied ==
    "account_types" \in finished
    => \A i \in DOMAIN src.account_types :
           /\ i \in DOMAIN db.rows["account_types"]
           /\ db.rows["account_types"][i] = src.account_types[i]
====
